---- MODULE Spec2Model ----
(***************************************************************************)
(* Model of the `lz` build/watch/release tool (bin/lezer.js).              *)
(*                                                                         *)
(* The JavaScript event loop is modelled as follows.  A macrotask (a timer *)
(* callback, a file-system notification, the completion of an awaited I/O  *)
(* operation) runs to completion together with every microtask it queues. *)
(* An async function is a task record whose pc is its position; pc "loop"  *)
(* is a position reached by a microtask only, so no macrotask is enabled   *)
(* while some task stands at "loop".                                       *)
(***************************************************************************)
EXTENDS Integers, Sequences, FiniteSets, TLC

VARIABLES
  now,            \* the file system clock (source of mtimeMs)
  src,            \* src[p]: the files of <p>/src, each [text, mtime]
  dist,           \* dist[p][f]: the files of <p>/dist, each [mtime, content]
  dependencies_,  \* Pkg._dependencies of each package (Null or a list)
  work,           \* Watcher.work
  working,        \* Watcher.working
  timers,         \* outstanding setTimeout(() => this.startWork(), 20) calls, oldest first
  tasks,          \* running async functions (Watcher.run, build, watch) at an await
  proc,           \* the process: process.argv, its exit, what it has done so far
  repo,           \* repo[p]: package.json, CHANGELOG.md and the git repository of <p>
  hist            \* history of the run, read by the properties only

vars == <<now, src, dist, dependencies_, work, working, timers, tasks, proc, repo, hist>>

----------------------------------------------------------------------------
(* Bounds *)

NumPkgs == 2        \* packages of the registry that are modelled
MaxTime == 2        \* the clock runs over 0..MaxTime
MaxNotify == 3      \* file-system notifications delivered in one run
MaxFiles == 2       \* source files of a package whose imports are scanned
MaxLines == 1       \* lines of such a source file
MaxNotes == 1       \* release notes of one kind in the log of a package
MaxIno == 3         \* files that succeed one another at one path

----------------------------------------------------------------------------
(* Generic helpers *)

Null == [kind |-> "null"]

Range(s) == {s[i] : i \in DOMAIN s}

Includes(arr, x) == \E i \in DOMAIN arr : arr[i] = x

IndexOf(arr, x) ==
  IF Includes(arr, x) THEN CHOOSE i \in DOMAIN arr : arr[i] = x /\ \A j \in 1..(i-1) : arr[j] # x
  ELSE -1

Splice(arr, i) == SubSeq(arr, 1, i - 1) \o SubSeq(arr, i + 1, Len(arr))

RECURSIVE Concat(_)
Concat(ss) == IF ss = <<>> THEN <<>> ELSE Head(ss) \o Concat(Tail(ss))

Min(a, b) == IF a <= b THEN a ELSE b

----------------------------------------------------------------------------
(* The package registry *)

AllPackages ==
  <<"common", "lr", "generator", "javascript", "css", "html", "xml", "cpp",
    "java", "python", "json", "rust", "lezer", "markdown">>

packages == SubSeq(AllPackages, 1, NumPkgs)

PkgSet == Range(packages)

\* A Pkg object and a string are different values: x === y is false between them.
Pkg(name) == [kind |-> "Pkg", name |-> name]

Str(name) == [kind |-> "string", name |-> name]

\* packageNames[name]: the Pkg registered under the name, or undefined
packageNames(name) == IF name \in PkgSet THEN Pkg(name) ELSE Null

Position(p) == CHOOSE i \in DOMAIN packages : packages[i] = p

\* Directory names an import statement can point to: the registered packages
\* and a directory that is not a package.
ImportNames == PkgSet \cup {"other"}

----------------------------------------------------------------------------
(* Files *)

\* A text is a sequence of lines.  A line is the sequence of names X of the
\*   from "../../X"
\* clauses of an import statement that starts the line (empty: the line is
\* no such import).  The pattern of Pkg.dependencies matches once per line
\* and, `.*` being greedy, captures the last clause.
Match(line) == line[Len(line)]

\* The content of a generated file is a sequence of tokens: 0 is the text
\* "sourceRoot":"" , 2 is "sourceRoot":"../.." and 1 is any other text.
TokLen(t) == IF t = 2 THEN 2 ELSE 1

RECURSIVE BufferLength(_)
BufferLength(c) == IF c = <<>> THEN 0 ELSE TokLen(Head(c)) + BufferLength(Tail(c))

\* code.replace(/"sourceRoot":""/, '"sourceRoot":"../.."'): the first match only
RECURSIVE ReplaceSourceRoot(_)
ReplaceSourceRoot(c) ==
  IF c = <<>> THEN <<>>
  ELSE IF Head(c) = 0 THEN <<2>> \o Tail(c)
  ELSE <<Head(c)>> \o ReplaceSourceRoot(Tail(c))

DistFiles ==
  {"index.es.js", "index.es.js.map", "index.js", "index.js.map", "index.d.ts", "index.d.ts.map"}

Absent == [mtime |-> -1, content |-> <<>>]

\* /\.d\.ts$/ of Pkg.declarations and /\.d\.ts/ , /\.d\.ts\.map/ of runRollup
IsDeclaration(f) == f = "index.d.ts"

HasDts(f) == f \in {"index.d.ts", "index.d.ts.map"}

IsDtsMap(f) == f = "index.d.ts.map"

SrcFile(p, k) == [pkg |-> p, dir |-> "src", name |-> "", idx |-> k]

DistFile(p, f) == [pkg |-> p, dir |-> "dist", name |-> f, idx |-> 0]

sources(p) == [k \in DOMAIN src[p] |-> SrcFile(p, k)]

\* The order of readdirSync over the declaration files of dist
DeclOrder == <<"index.d.ts">>

declarations(p) ==
  SelectSeq([k \in DOMAIN DeclOrder |-> DistFile(p, DeclOrder[k])],
            LAMBDA file : dist[p][file.name].mtime >= 0)

esmFile(p) == DistFile(p, "index.es.js")

cjsFile(p) == DistFile(p, "index.js")

fileTime(file) ==
  IF file.dir = "src" THEN src[file.pkg][file.idx].mtime
  ELSE dist[file.pkg][file.name].mtime

----------------------------------------------------------------------------
(* Pkg.dependencies and Pkg.inputFiles *)

Array(items) == [kind |-> "Array", items |-> items]

\* One source text: every matching line pushes packageNames[m[1]] unless the
\* array includes the string m[1] or the name is not registered.
RECURSIVE ScanText(_, _)
ScanText(deps, text) ==
  IF text = <<>> THEN deps
  ELSE LET line == Head(text)
           push == /\ line # <<>>
                   /\ ~Includes(deps, Str(Match(line)))
                   /\ packageNames(Match(line)).kind # "null"
       IN ScanText(IF push THEN Append(deps, packageNames(Match(line))) ELSE deps,
                   Tail(text))

RECURSIVE ScanSources(_, _)
ScanSources(deps, files) ==
  IF files = <<>> THEN deps
  ELSE ScanSources(ScanText(deps, Head(files).text), Tail(files))

\* The value of the getter; the cache is filled by the actions that call it.
dependencies(p) ==
  IF dependencies_[p].kind # "null" THEN dependencies_[p].items
  ELSE ScanSources(<<>>, src[p])

\* inputFiles without the declarations of the dependencies
inputFilesOfSources(p) == sources(p)

\* inputFiles that also lists the declarations of the package itself
inputFilesAndOwn(p) ==
  LET deps == dependencies(p)
  IN sources(p) \o declarations(p) \o
     Concat([i \in DOMAIN deps |-> declarations(deps[i].name)])

inputFiles(p) ==
  LET deps == dependencies(p)
  IN sources(p) \o Concat([i \in DOMAIN deps |-> declarations(deps[i].name)])

\* The paths fs.watch is called for by a Watcher over the packages of ps
Watched(ps) == UNION {Range(inputFiles(p)) : p \in ps}

\* The cache after inputFiles has been read for the packages of ps
Resolved(ps) ==
  [p \in PkgSet |-> IF p \in ps THEN Array(dependencies(p)) ELSE dependencies_[p]]

----------------------------------------------------------------------------
(* rebuild, runRollup, maybeWriteFile *)

\* config.output of Pkg.rollupConfig(options), as the formats in order
rollupConfig(options) == IF options.esm THEN <<"esm", "cjs">> ELSE <<"cjs">>

\* The declaration assets of a bundle: what the TypeScript plugin emits for
\* the sources as they are, a declaration file that holds the api of the
\* entry source and, with declarationMap set in tsconfig.json, its map.
Asset(f, c) == [fileName |-> f, source |-> c]

Bundle(p) ==
  <<Asset("index.d.ts", src[p][1].api)>> \o
  (IF proc.declarationMap THEN <<Asset("index.d.ts.map", <<1, 0>>)>> ELSE <<>>)

\* result.output of bundle.generate(output): the chunk, then the assets
Chunk(format) == IF format = "esm" THEN "index.es.js" ELSE "index.js"

Generate(bundle, format) ==
  <<[fileName |-> Chunk(format), source |-> <<>>, map |-> TRUE]>> \o
  [k \in DOMAIN bundle |-> [fileName |-> bundle[k].fileName, source |-> bundle[k].source,
                            map |-> FALSE]]

writeFile(d, f, content, t) == [d EXCEPT ![f] = [mtime |-> t, content |-> content]]

\* maybeWriteFile without its comparison with the file on disk
maybeWriteFileAlways(d, f, content, t) == writeFile(d, f, content, t)

maybeWriteFile(d, f, content, t) ==
  LET size == IF d[f].mtime < 0 THEN -1 ELSE BufferLength(d[f].content)
  IN IF size # BufferLength(content) \/ d[f].content # content
     THEN writeFile(d, f, content, t)
     ELSE d

\* The body of the loop over result.output, for one file
WriteOne(d, file, format, t) ==
  LET d1 == IF ~HasDts(file.fileName) THEN writeFile(d, file.fileName, file.source, t)
            ELSE IF format = "cjs"
                 THEN maybeWriteFile(d, file.fileName,
                                     IF IsDtsMap(file.fileName)
                                     THEN ReplaceSourceRoot(file.source) ELSE file.source, t)
                 ELSE d
  IN IF file.map THEN writeFile(d1, file.fileName \o ".map", <<>>, t) ELSE d1

RECURSIVE WriteAll(_, _, _, _)
WriteAll(d, files, format, t) ==
  IF files = <<>> THEN d
  ELSE WriteAll(WriteOne(d, Head(files), format, t), Tail(files), format, t)

\* Math.min(fileTime(pkg.cjsFile), options.esm ? fileTime(pkg.esmFile) : Infinity)
OutputTime(p, options) ==
  IF options.esm THEN Min(fileTime(cjsFile(p)), fileTime(esmFile(p)))
  ELSE fileTime(cjsFile(p))

\* The early return with > in the place of >=
UpToDateStrict(p, options) ==
  /\ ~options.always
  /\ LET time == OutputTime(p, options)
     IN /\ time >= 0
        /\ ~\E file \in Range(inputFiles(p)) : fileTime(file) > time

\* rebuild returns before the "Building" line
UpToDate(p, options) ==
  /\ ~options.always
  /\ LET time == OutputTime(p, options)
     IN /\ time >= 0
        /\ ~\E file \in Range(inputFiles(p)) : fileTime(file) >= time

\* pkg.inputFiles is read only when the test reaches it
RebuildReads(p, options) ==
  IF ~options.always /\ OutputTime(p, options) >= 0 THEN {p} ELSE {}

----------------------------------------------------------------------------
(* Async functions in flight *)

NoBundle == <<>>

Task(fn, options, list) ==
  [fn |-> fn, pc |-> "loop", pkg |-> "", options |-> options, outs |-> <<>>,
   bundle |-> NoBundle, list |-> list, i |-> 1]

\* No microtask is pending: the event loop may take the next macrotask.
Quiet == \A i \in DOMAIN tasks : tasks[i].pc # "loop"

\* Rebuilds that are between their "Building" line and their end
Building == {i \in DOMAIN tasks : tasks[i].pc \in {"rollup", "generate"}}

\* rebuild(p, options) called by task i, up to its first await
Rebuild(i, p) ==
  LET t == tasks[i]
  IN /\ dependencies_' = Resolved(RebuildReads(p, t.options))
     /\ tasks' = [tasks EXCEPT ![i] =
                    IF UpToDate(p, t.options) THEN [t EXCEPT !.pkg = p, !.pc = "loop"]
                    ELSE [t EXCEPT !.pkg = p, !.pc = "rollup"]]

\* rollup(config) resolves: the bundle exists, the first output is being generated
RollupDone(i) ==
  /\ Quiet
  /\ tasks[i].pc = "rollup"
  /\ tasks' = [tasks EXCEPT ![i].pc = "generate", ![i].bundle = Bundle(tasks[i].pkg),
                            ![i].outs = rollupConfig(tasks[i].options)]
  /\ UNCHANGED <<now, src, dist, dependencies_, work, working, timers, proc, hist, repo>>

\* One pass of the loop over config.output: its files are written
Generated(i) ==
  /\ Quiet
  /\ tasks[i].pc = "generate"
  /\ LET t == tasks[i]
         p == t.pkg
         format == Head(t.outs)
     IN /\ dist' = [dist EXCEPT ![p] = WriteAll(dist[p], Generate(t.bundle, format), format, now)]
        /\ tasks' = [tasks EXCEPT ![i].outs = Tail(t.outs),
                                  ![i].pc = IF Tail(t.outs) = <<>> THEN "loop" ELSE "generate"]
  /\ UNCHANGED <<now, src, dependencies_, work, working, timers, repo>>

----------------------------------------------------------------------------
(* The environment *)

Tick ==
  /\ Quiet
  /\ now < MaxTime
  /\ now' = now + 1
  /\ UNCHANGED <<src, dist, dependencies_, work, working, timers, tasks, proc, hist, repo>>

\* A source file is saved
Saved(p, k) ==
  /\ Quiet
  /\ src[p][k].mtime # now
  /\ src' = [src EXCEPT ![p][k].mtime = now]
  /\ UNCHANGED <<now, dist, dependencies_, work, working, timers, tasks, repo>>

----------------------------------------------------------------------------
(* Versions, release notes and the repository of a package *)

\* A version "a.b.c" is <<a, b, c>>, as version.split(".") gives it.
Versions == {<<0, 1, 0>>, <<0, 2, 5>>, <<1, 2, 3>>}

\* No version: bumpVersion has thrown Error("No new release notes!")
NoVersion == <<>>

NoNotes == "No new release notes!"

\* The result of changelog: the number of notes of each kind
Changes(breaking, fix, feature) == [breaking |-> breaking, fix |-> fix, feature |-> feature]

AllChanges == {Changes(b, x, f) : b \in 0..MaxNotes, x \in 0..MaxNotes, f \in 0..MaxNotes}

\* bumpVersion with no throw: a patch bump when there is no note
bumpVersionOrPatch(version, changes) ==
  IF changes.breaking > 0 /\ version[1] # 0 THEN <<version[1] + 1, 0, 0>>
  ELSE IF changes.feature > 0 \/ changes.breaking > 0 THEN <<version[1], version[2] + 1, 0>>
  ELSE <<version[1], version[2], version[3] + 1>>

\* bumpVersion without the major != "0" guard
bumpVersionUnguarded(version, changes) ==
  IF changes.breaking > 0 THEN <<version[1] + 1, 0, 0>>
  ELSE IF changes.feature > 0 THEN <<version[1], version[2] + 1, 0>>
  ELSE IF changes.fix > 0 THEN <<version[1], version[2], version[3] + 1>>
  ELSE NoVersion

\* bumpVersion of the first version of the script
bumpVersion(version, changes) ==
  IF changes.breaking > 0 /\ version[1] # 0 THEN <<version[1] + 1, 0, 0>>
  ELSE IF changes.feature > 0 \/ changes.breaking > 0 THEN <<version[1], version[2] + 1, 0>>
  ELSE IF changes.fix > 0 THEN <<version[1], version[2], version[3] + 1>>
  ELSE NoVersion

\* bumpVersion of the second version of the script
bumpVersion2(version, changes) ==
  IF changes.breaking > 0 /\ version[1] # 0 THEN <<version[1] + 1, 0, 0>>
  ELSE IF (changes.feature > 0 /\ version[1] # 0) \/ changes.breaking > 0
       THEN <<version[1], version[2] + 1, 0>>
  ELSE IF changes.fix > 0 \/ changes.feature > 0
       THEN <<version[1], version[2], version[3] + 1>>
  ELSE NoVersion

\* package.json (version, @lezer/* constraints), CHANGELOG.md (the versions of
\* its sections, newest first), the git index, the "Mark version" commits,
\* the tags, and the notes of the commits since the tag of the version
PkgRepo(version, notes) ==
  [version |-> version, deps |-> version, log |-> <<>>, index |-> {},
   commits |-> <<>>, tags |-> {}, notes |-> notes]

RepoInit == [p \in PkgSet |-> PkgRepo(<<0, 1, 0>>, Changes(0, 0, 0))]

----------------------------------------------------------------------------
(* class Watcher *)

WatchOptions == [esm |-> FALSE, always |-> FALSE]

Touch(p, k) == Saved(p, k) /\ UNCHANGED <<proc, hist>>

GenerateDone(i) == Generated(i) /\ UNCHANGED <<proc, hist>>

\* The body of Watcher.trigger(pkg): the pending set and the debounce timer
pushWork(p) ==
  IF ~Includes(work, p)
  THEN /\ work' = Append(work, p)
       /\ timers' = Append(timers, p = hist.P /\ hist.window = "none")
  ELSE UNCHANGED <<work, timers>>

\* trigger without its test of this.work.includes(pkg)
triggerAlways(p) ==
  /\ Quiet
  /\ hist.notified < MaxNotify
  /\ Len(work) < MaxNotify
  /\ work' = Append(work, p)
  /\ timers' = Append(timers, p = hist.P /\ hist.window = "none")
  /\ hist' = IF p # hist.P THEN [hist EXCEPT !.notified = @ + 1]
             ELSE [hist EXCEPT !.notified = @ + 1,
                               !.burst = Min(@ + 1, 2),
                               !.idleAtFirst = IF hist.window = "none"
                                               THEN ~working /\ timers = <<>> ELSE @,
                               !.window = IF @ = "none" THEN "open" ELSE @,
                               !.late = @ \/ hist.window = "closed",
                               !.during = @ \/ \E i \in Building : tasks[i].pkg = p]
  /\ UNCHANGED <<now, src, dist, dependencies_, working, tasks, proc, repo>>

\* The callback of fs.watch for a file of package p: self.trigger(pkg)
\* A trigger that starts the build of p over when p is being built
triggerRestarts(p) ==
  /\ Quiet
  /\ hist.notified < MaxNotify
  /\ IF \E i \in Building : tasks[i].pkg = p
     THEN /\ tasks' = [i \in DOMAIN tasks |->
                         IF i \in Building /\ tasks[i].pkg = p
                         THEN [tasks[i] EXCEPT !.pc = "rollup", !.outs = <<>>, !.bundle = NoBundle]
                         ELSE tasks[i]]
          /\ UNCHANGED <<work, timers>>
     ELSE /\ IF ~Includes(work, p)
             THEN /\ work' = Append(work, p)
                  /\ timers' = Append(timers, p = hist.P /\ hist.window = "none")
             ELSE UNCHANGED <<work, timers>>
          /\ UNCHANGED tasks
  /\ hist' = IF p # hist.P THEN [hist EXCEPT !.notified = @ + 1]
             ELSE [hist EXCEPT !.notified = @ + 1,
                               !.burst = Min(@ + 1, 2),
                               !.idleAtFirst = IF hist.window = "none"
                                               THEN ~working /\ timers = <<>> ELSE @,
                               !.window = IF @ = "none" THEN "open" ELSE @,
                               !.late = @ \/ hist.window = "closed",
                               !.during = @ \/ \E i \in Building : tasks[i].pkg = p]
  /\ UNCHANGED <<now, src, dist, dependencies_, working, proc, repo>>

\* Watcher.trigger(pkg): what it does to the Watcher
enqueue(p) ==
  /\ pushWork(p)
  /\ hist' = IF p # hist.P THEN [hist EXCEPT !.notified = @ + 1]
             ELSE [hist EXCEPT !.notified = @ + 1,
                               !.burst = Min(@ + 1, 2),
                               !.idleAtFirst = IF hist.window = "none"
                                               THEN ~working /\ timers = <<>> ELSE @,
                               !.window = IF @ = "none" THEN "open" ELSE @,
                               !.late = @ \/ hist.window = "closed",
                               !.during = @ \/ \E i \in Building : tasks[i].pkg = p]

\* The callback of fs.watch for a "change" event on a file of p
trigger(p) ==
  /\ Quiet
  /\ hist.notified < MaxNotify
  /\ enqueue(p)
  /\ UNCHANGED <<now, src, dist, dependencies_, working, tasks, proc, repo>>

\* startWork without its test of this.working
startWorkUnguarded ==
  /\ Quiet
  /\ timers # <<>>
  /\ timers' = Tail(timers)
  /\ working' = TRUE
  /\ tasks' = Append(tasks, Task("run", WatchOptions, <<>>))
  /\ hist' = [hist EXCEPT !.window = IF Head(timers) THEN "closed" ELSE @,
                          !.ignored = @ \/ working]
  /\ UNCHANGED <<now, src, dist, dependencies_, work, proc, repo>>

\* The oldest timer fires: startWork()
startWork ==
  /\ Quiet
  /\ timers # <<>>
  /\ timers' = Tail(timers)
  /\ IF working THEN UNCHANGED <<working, tasks>>
     ELSE /\ working' = TRUE
          /\ tasks' = Append(tasks, Task("run", WatchOptions, <<>>))
  /\ hist' = [hist EXCEPT !.window = IF Head(timers) THEN "closed" ELSE @,
                          !.ignored = @ \/ working]
  /\ UNCHANGED <<now, src, dist, dependencies_, work, proc, repo>>

\* The package that was enqueued first
NextWorkFifo == work[1]

\* The first package of this.pkgs that is in this.work
NextWork == packages[CHOOSE k \in DOMAIN packages :
                       /\ IndexOf(work, packages[k]) >= 0
                       /\ \A j \in 1..(k-1) : IndexOf(work, packages[j]) < 0]

\* run without its while loop: it returns after the first rebuild
runOnePackage(i) ==
  /\ tasks[i].fn = "run"
  /\ tasks[i].pc = "loop"
  /\ IF work = <<>> \/ tasks[i].pkg # ""
     THEN /\ working' = FALSE
          /\ tasks' = Splice(tasks, i)
          /\ UNCHANGED <<work, dependencies_, hist>>
     ELSE LET pkg == NextWork
          IN /\ work' = Splice(work, IndexOf(work, pkg))
             /\ Rebuild(i, pkg)
             /\ hist' = [hist EXCEPT
                           !.started = IF pkg = hist.P THEN Min(@ + 1, 2) ELSE @,
                           !.pick = IF \/ @ = "wrong"
                                       \/ Building # {}
                                       \/ \E q \in Range(work) : Position(q) < Position(pkg)
                                    THEN "wrong"
                                    ELSE IF @ = "jump" \/ work[1] # pkg THEN "jump"
                                    ELSE "head"]
             /\ UNCHANGED working
  /\ UNCHANGED <<now, src, dist, timers, proc, repo>>

\* Watcher.run at the test of its while loop
run(i) ==
  /\ tasks[i].fn = "run"
  /\ tasks[i].pc = "loop"
  /\ IF work = <<>>
     THEN \* the promise of run() resolves: .then(() => this.working = false)
          /\ working' = FALSE
          /\ tasks' = Splice(tasks, i)
          /\ UNCHANGED <<work, dependencies_, hist>>
     ELSE LET pkg == NextWork
          IN /\ work' = Splice(work, IndexOf(work, pkg))
             /\ Rebuild(i, pkg)
             /\ hist' = [hist EXCEPT
                           !.started = IF pkg = hist.P THEN Min(@ + 1, 2) ELSE @,
                           !.pick = IF \/ @ = "wrong"
                                       \/ Building # {}
                                       \/ \E q \in Range(work) : Position(q) < Position(pkg)
                                    THEN "wrong"
                                    ELSE IF @ = "jump" \/ work[1] # pkg THEN "jump"
                                    ELSE "head"]
             /\ UNCHANGED working
  /\ UNCHANGED <<now, src, dist, timers, proc, repo>>

\* rollup or a write rejects inside rebuild: run() rejects, the error is
\* logged by .catch, and .then resets the flag
runThrows(i) ==
  /\ Quiet
  /\ tasks[i].fn = "run"
  /\ tasks[i].pc \in {"rollup", "generate"}
  /\ working' = FALSE
  /\ tasks' = Splice(tasks, i)
  /\ UNCHANGED <<now, src, dist, dependencies_, work, timers, proc, hist, repo>>

----------------------------------------------------------------------------
(* The Watcher, constructed over the registry *)

\* hist.P is the package whose notifications are followed: window is the
\* state of the timer its first notification armed, idleAtFirst whether no
\* drain ran and no timer was outstanding at that notification, late whether
\* it was notified after that timer fired, started the number of rebuild
\* calls made for it by the drain loop (2 stands for two or more).  pick
\* classifies the picks of the drain loop: "wrong" once a pick was not the
\* pending package of lowest registry position or was made during a rebuild,
\* "jump" once a pick passed over a package that was enqueued earlier.
\* burst counts the notifications for P (2 stands for two or more), ignored
\* tells that a startWork call returned at its guard.
HistInit(P) ==
  [notified |-> 0, P |-> P, burst |-> 0, window |-> "none", idleAtFirst |-> FALSE,
   late |-> FALSE, started |-> 0, pick |-> "none", ignored |-> FALSE, during |-> FALSE]

\* One source file per package; every package but the first imports the first
WatchSources ==
  [p \in PkgSet |-> <<[text |-> IF p = packages[1] THEN <<>> ELSE <<<<packages[1]>>>>,
                       mtime |-> 0, api |-> <<1>>]>>]

\* The dist directory of a package that was built at time t, and of one never built
BuiltDist(t) == [f \in DistFiles |-> IF f = "index.d.ts.map" THEN Absent
                                  ELSE [mtime |-> t,
                                        content |-> IF f = "index.d.ts" THEN <<1>> ELSE <<>>]]

EmptyDist == [f \in DistFiles |-> Absent]

\* The dist directory that `lz watch` ({esm: false}) leaves behind at time t
WatchedDist(t) == [f \in DistFiles |-> IF f \in {"index.js", "index.js.map"}
                                       THEN [mtime |-> t, content |-> <<>>]
                                       ELSE Absent]

InitWatcher ==
  /\ now = 1
  /\ src = WatchSources
  /\ dist \in {[p \in PkgSet |-> BuiltDist(1)], [p \in PkgSet |-> EmptyDist]}
  /\ dependencies_ = [p \in PkgSet |-> Array(ScanSources(<<>>, src[p]))]
  /\ work = <<>>
  /\ working = FALSE
  /\ timers = <<>>
  /\ tasks = <<>>
  /\ repo = RepoInit
  /\ proc = [argv |-> <<"watch">>, status |-> "running", code |-> 0, run |-> 1,
             configError |-> FALSE, effects |-> {}, declarationMap |-> FALSE,
             watches |-> Watched(PkgSet), error |-> "", script |-> 1]
  /\ \E P \in PkgSet : hist = HistInit(P)

NextWatcher ==
  \/ \E p \in PkgSet : \E k \in DOMAIN src[p] : Touch(p, k)
  \/ \E p \in PkgSet : trigger(p)
  \/ startWork
  \/ \E i \in DOMAIN tasks : run(i)
  \/ \E i \in DOMAIN tasks : RollupDone(i)
  \/ \E i \in DOMAIN tasks : GenerateDone(i)
  \/ \E i \in DOMAIN tasks : runThrows(i)

SpecWatcher == InitWatcher /\ [][NextWatcher]_vars

----------------------------------------------------------------------------
(* Properties of the Watch Scheduler *)

RunTasks == {i \in DOMAIN tasks : tasks[i].fn = "run"}

\* No drain is running, none is scheduled, nothing is pending
Quiescent == ~working /\ tasks = <<>> /\ timers = <<>> /\ work = <<>>

\* C1: at most one drain loop exists and at most one package rebuild is in
\* progress in every reachable state, whatever the interleaving of change
\* notifications, timer firings, build completions and build failures.
C1_OneRebuildAtATime ==
  /\ Cardinality(RunTasks) <= 1
  /\ Cardinality(Building) <= 1
  /\ (RunTasks # {} => working)

\* A startWork call arrived during a rebuild, returned at its guard and left
\* a package enqueued.
C1_Witness ==
  /\ hist.ignored
  /\ Building # {}
  /\ work # <<>>
  /\ timers = <<>>

\* C2: when a rebuild of the drain loop throws while packages are pending,
\* the drain loop is still running after the failure (so that the pending
\* packages are rebuilt with no further change notification).
C2_DrainContinuesAfterThrow ==
  [][((\E i \in DOMAIN tasks : runThrows(i)) /\ work # <<>>) => working']_vars

\* C3: every pick of the drain loop takes the pending package of lowest
\* registry position, and is made while no rebuild is in progress: of two
\* packages pending together, the one that precedes in the registry is
\* rebuilt to its end before the rebuild of the other starts.
C3_LowestRegistryPositionFirst == hist.pick # "wrong"

\* A pick has passed over a package that had been enqueued earlier; the
\* pending set has been drained since and a rebuild is in progress.
C3_Witness ==
  /\ hist.pick = "jump"
  /\ Building # {}
  /\ work = <<>>

\* C4 as claimed: in every scheduler state, the notifications for P that all
\* arrive before the timer of the first of them fires cause exactly one
\* rebuild of P.
C4_OneRebuildPerWindow ==
  (Quiescent /\ hist.window # "none" /\ ~hist.late) => hist.started = 1

\* C4 as amended: when no drain is running and no debounce timer is
\* outstanding at the first notification for P, the notifications for P that
\* all arrive before the timer of the first of them fires cause at most one
\* rebuild of P, and exactly one once the scheduler is quiescent again.
C4_OneRebuildPerWindowFromIdle ==
  (hist.window # "none" /\ hist.idleAtFirst /\ ~hist.late) =>
    /\ hist.started <= 1
    /\ (Quiescent => hist.started = 1)

\* Two or more notifications for P in one window that opened in the idle
\* state, the rebuild of P done and the scheduler quiescent again.
C4_Witness ==
  /\ Quiescent
  /\ hist.burst >= 2
  /\ hist.idleAtFirst
  /\ hist.window = "closed"
  /\ ~hist.late
  /\ hist.started = 1

\* C18: in every reachable state in which no drain is running (working is
\* false) and no debounce timer is outstanding, the pending-work set is
\* empty, whatever notifications, build completions and build failures led
\* there.
C18_IdleMeansNothingPending ==
  (~working /\ timers = <<>>) => work = <<>>

\* C19: a notification that arrives while a rebuild is in progress leaves
\* the rebuild as it is and at most appends the notified package to the
\* pending set; when it is for the package P being rebuilt, P is enqueued
\* again, and once the scheduler is idle with nothing pending P has been
\* rebuilt a second time.
C19_NoMidBuildCancellation ==
  /\ [][\A p \in PkgSet :
          (trigger(p) /\ Building # {}) =>
            /\ tasks' = tasks
            /\ dist' = dist
            /\ working' = working
            /\ work' = IF Includes(work, p) THEN work ELSE Append(work, p)
            /\ (\E i \in Building : tasks[i].pkg = p) => Includes(work', p)]_vars
  /\ [](hist.during => (Includes(work, hist.P) \/ hist.started = 2))
  /\ []((hist.during /\ Quiescent) => hist.started = 2)

\* P was notified while its rebuild was in progress; that rebuild and a
\* second one have ended, and the scheduler is idle.
C19_Witness ==
  /\ hist.during
  /\ Quiescent
  /\ hist.started = 2
  /\ hist.burst = 2

----------------------------------------------------------------------------
(* The Watcher under an endless stream of notifications, builds that end
   without throwing, and timers that fire *)

\* The callback of fs.watch for a file of p, any number of times: the
\* notifications are not counted, and a notification waits while MaxNotify
\* timers are outstanding.
notify(p) ==
  /\ Quiet
  /\ Len(timers) < MaxNotify
  /\ pushWork(p)
  /\ UNCHANGED hist
  /\ UNCHANGED <<now, src, dist, dependencies_, working, tasks, proc, repo>>

\* The sources of the first package of the registry are saved; the other
\* packages import it and are stale as long as its declarations are not
\* older than their outputs.
NextWake ==
  \/ \E k \in DOMAIN src[packages[1]] : Touch(packages[1], k)
  \/ \E p \in PkgSet : notify(p)
  \/ startWork
  \/ \E i \in DOMAIN tasks : run(i)
  \/ \E i \in DOMAIN tasks : RollupDone(i)
  \/ \E i \in DOMAIN tasks : GenerateDone(i)

\* Every timer fires, every continuation of run() is resumed, every call of
\* rollup and every write of the outputs ends.
WakeFairness ==
  /\ WF_vars(startWork)
  /\ WF_vars(\E i \in DOMAIN tasks : run(i))
  /\ WF_vars(\E i \in DOMAIN tasks : RollupDone(i))
  /\ WF_vars(\E i \in DOMAIN tasks : GenerateDone(i))

\* The Watcher over built packages; the notifications of the last package
\* of the registry are the ones followed
InitWake ==
  /\ InitWatcher
  /\ dist = [p \in PkgSet |-> BuiltDist(1)]
  /\ hist.P = packages[Len(packages)]

SpecWake == InitWake /\ [][NextWake]_vars /\ WakeFairness

\* The packages that the drain loop picks before p when they are pending
Before(p) == {q \in PkgSet : Position(q) < Position(p)}

\* A notification for p leaves p pending, and p stops being pending only by
\* the drain loop calling rebuild for p: a package that is pending is owed a
\* rebuild that starts after its latest notification.
PendingIsOwed ==
  /\ [][\A p \in PkgSet : notify(p) => Includes(work', p)]_vars
  /\ [][\A p \in PkgSet :
          (Includes(work, p) /\ ~Includes(work', p)) =>
            \E i \in DOMAIN tasks : run(i) /\ tasks'[i].pkg = p]_vars

\* C21 as claimed: when no build throws and the timers fire, every
\* notification for a package P is eventually followed by a rebuild of P that
\* starts after it.
C21_NoLostWakeUp ==
  /\ PendingIsOwed
  /\ \A p \in PkgSet : Includes(work, p) ~> ~Includes(work, p)

\* C21 as amended: when no build throws, the timers fire, and the
\* notifications for the packages that precede P in the registry eventually
\* stop, every notification for P is eventually followed by a rebuild of P
\* that starts after it, and the drain is never left stopped with a package
\* pending and no timer outstanding.
C21_NoLostWakeUpUnlessOvertaken ==
  /\ PendingIsOwed
  /\ [](work # <<>> => (working \/ timers # <<>>))
  /\ \A p \in PkgSet :
       <>[][\A q \in Before(p) : ~notify(q)]_vars =>
         (Includes(work, p) ~> ~Includes(work, p))

\* A timer found the drain busy, the drain picked a package that precedes P
\* over one that was enqueued earlier, P has been rebuilt since, and the
\* scheduler is idle again.
C21_Witness ==
  /\ Quiescent
  /\ hist.ignored
  /\ hist.pick = "jump"
  /\ hist.started >= 1
  /\ Before(hist.P) # {}

----------------------------------------------------------------------------
(* The callback of fs.watch and its re-arming after a "rename" event *)

\* A watcher made by fs.watch(file, trigger): it is attached to the file that
\* was at the path when it was made (its inode), not to the path.
Handle(file, ino) == [file |-> file, ino |-> ino]

\* Some watcher reports the events of the file that is now at this path
Attached(p, k) ==
  src[p][k].exists /\ Handle(SrcFile(p, k), src[p][k].ino) \in proc.watches

\* An event nobody reports: it counts as missed once no re-arm is pending
unseen(p, k) ==
  /\ hist' = [hist EXCEPT !.notified = @ + 1,
                          !.missed = @ \/ ~Includes(proc.rearm, SrcFile(p, k))]
  /\ UNCHANGED <<work, timers>>

\* The content of the file at a path changes: callback with type "change"
changed(p, k) ==
  /\ hist.notified < MaxNotify
  /\ src[p][k].exists
  /\ IF Attached(p, k) THEN enqueue(p) ELSE unseen(p, k)
  /\ UNCHANGED <<now, src, dist, dependencies_, working, tasks, proc, repo>>

\* The file at a path is replaced by another one, or moved away (gone):
\* callback with type "rename", which calls setTimeout(..., 50)
renamed(p, k, gone) ==
  /\ hist.notified < MaxNotify
  /\ src[p][k].exists
  /\ src[p][k].ino < MaxIno
  /\ src' = [src EXCEPT ![p][k].exists = ~gone, ![p][k].ino = @ + 1]
  /\ IF Attached(p, k)
     THEN /\ enqueue(p)
          /\ proc' = [proc EXCEPT !.rearm = Append(@, SrcFile(p, k))]
     ELSE /\ unseen(p, k)
          /\ UNCHANGED proc
  /\ UNCHANGED <<now, dist, dependencies_, working, tasks, repo>>

\* A file appears at a path where there was none
created(p, k) ==
  /\ ~src[p][k].exists
  /\ src' = [src EXCEPT ![p][k].exists = TRUE]
  /\ UNCHANGED <<now, dist, dependencies_, work, working, timers, tasks, proc, repo, hist>>

\* The 50 ms timer: try { fs.watch(file, trigger) } catch {}
rewatch ==
  /\ proc.rearm # <<>>
  /\ LET file == Head(proc.rearm)
         f == src[file.pkg][file.idx]
     IN proc' = [proc EXCEPT !.rearm = Tail(@),
                             !.watches = IF f.exists THEN @ \cup {Handle(file, f.ino)}
                                         ELSE @]     \* ENOENT, swallowed
  /\ UNCHANGED <<now, src, dist, dependencies_, work, working, timers, tasks, repo, hist>>

InitRename ==
  /\ now = 1
  /\ src = [p \in PkgSet |->
              [k \in DOMAIN WatchSources[p] |->
                 [text |-> WatchSources[p][k].text, mtime |-> 0, api |-> <<1>>,
                  exists |-> TRUE, ino |-> 1]]]
  /\ dist = [p \in PkgSet |-> EmptyDist]
  /\ dependencies_ = [p \in PkgSet |-> Array(ScanSources(<<>>, src[p]))]
  /\ work = <<>>
  /\ working = FALSE
  /\ timers = <<>>
  /\ tasks = <<>>
  /\ repo = RepoInit
  /\ proc = [argv |-> <<"watch">>, status |-> "running", code |-> 0, run |-> 1,
             configError |-> FALSE, effects |-> {}, declarationMap |-> FALSE,
             watches |-> {Handle(file, 1) : file \in Watched(PkgSet)},
             error |-> "", script |-> 1, rearm |-> <<>>]
  /\ \E P \in PkgSet : hist = [missed |-> FALSE] @@ HistInit(P)

NextRename ==
  \/ \E p \in PkgSet : \E k \in DOMAIN src[p] : changed(p, k)
  \/ \E p \in PkgSet : \E k \in DOMAIN src[p] : \E gone \in BOOLEAN : renamed(p, k, gone)
  \/ \E p \in PkgSet : \E k \in DOMAIN src[p] : created(p, k)
  \/ rewatch

SpecRename == InitRename /\ [][NextRename]_vars

\* C20: after a rename event on a watched input file and the 50 ms delay of
\* the re-arm, every change to that path still triggers the owning package,
\* also when the path did not exist when the re-arm was attempted.
C20_RenameRearmsTheWatch == ~hist.missed

----------------------------------------------------------------------------
(* The command line: start, help, error, build, release, releaseAll, notes *)

\* The arguments that start with "-"
Dashed ==
  {"--force", "--version", "-m", "--grammar", "--bogus"} \cup {"--" \o p : p \in PkgSet}

\* cmdFn.length of the entries of the table of start(); -1: no such command
cmdFn(command) ==
  CASE command \in {"packages", "--help"} -> 0
    [] command \in {"build", "watch", "release-all"} /\ proc.script = 1 -> 0
    [] command \in {"release", "notes"} -> 1
    [] OTHER -> -1

BuildOptions(args) == [esm |-> TRUE, always |-> Includes(args, "--force")]

filter(args) == SelectSeq(args, LAMBDA a : a \notin Dashed)

\* error(err): console.error(err), then process.exit(1)
error(err, config, effects) ==
  /\ proc' = [proc EXCEPT !.status = "exit", !.code = 1, !.configError = config,
                          !.effects = @ \cup effects, !.error = err]
  /\ tasks' = <<>>

\* process.exit(code), or the end of the command
Exit(code, config, effects) ==
  /\ proc' = [proc EXCEPT !.status = "exit", !.code = code, !.configError = config,
                          !.effects = @ \cup effects]
  /\ tasks' = <<>>

\* The argument loop of release: "ok", or "error" at the first bad argument
RECURSIVE releaseArgs(_)
releaseArgs(args) ==
  IF args = <<>> THEN "ok"
  ELSE IF Head(args) \in {"--version", "-m"}
       THEN releaseArgs(IF Len(args) >= 2 THEN Tail(Tail(args)) ELSE <<>>)
  ELSE "error"

\* The argument loop of releaseAll
RECURSIVE releaseAllArgs(_)
releaseAllArgs(args) ==
  IF args = <<>> THEN "ok"
  ELSE IF Head(args) = "--grammar" \/ Head(args) \in {"--" \o p : p \in PkgSet}
       THEN releaseAllArgs(IF Len(args) >= 2 THEN Tail(Tail(args)) ELSE <<>>)
  ELSE "error"

\* What a command that talks to git has done when it ends, and how it ends
GitLog == {"git log"}

Released == {"git log", "write package.json", "write CHANGELOG.md", "git add", "git commit", "git tag"}

----------------------------------------------------------------------------
(* release, releaseAll, changelog, doRelease, bumpDeps *)

\* The text given with -m: one note of a kind, or no note
NoteKind(text) ==
  CASE text = "FIX: note" -> "fix"
    [] text = "FEATURE: note" -> "feature"
    [] text = "BREAKING: note" -> "breaking"
    [] OTHER -> ""

\* --version <v> of the arguments of release (the last one), or NoVersion
ParseVersion(text) == IF text = "1.0.0" THEN <<1, 0, 0>> ELSE NoVersion

RECURSIVE newVersionArg(_, _)
newVersionArg(args, found) ==
  IF args = <<>> THEN found
  ELSE IF Head(args) = "--version"
       THEN IF Len(args) >= 2 THEN newVersionArg(Tail(Tail(args)), ParseVersion(args[2]))
            ELSE NoVersion
  ELSE newVersionArg(IF Len(args) >= 2 THEN Tail(Tail(args)) ELSE <<>>, found)

\* The notes of the -m arguments of release
RECURSIVE message(_, _)
message(args, kind) ==
  IF Len(args) < 2 THEN 0
  ELSE (IF Head(args) = "-m" /\ NoteKind(args[2]) = kind THEN 1 ELSE 0)
       + message(Tail(Tail(args)), kind)

\* changelog(pkg, since, extra): the notes of extra and of the commits
changelog(pkg, args) ==
  Changes(repo[pkg].notes.breaking + message(args, "breaking"),
          repo[pkg].notes.fix + message(args, "fix"),
          repo[pkg].notes.feature + message(args, "feature"))

\* One external step: a file written or a git command run in the directory of pkg
Step(op, file, pkg) == [op |-> op, file |-> file, pkg |-> pkg]

doRelease(pkg) ==
  <<Step("setModuleVersion", "package.json", pkg),
    Step("write CHANGELOG.md", "CHANGELOG.md", pkg),
    Step("git add", "package.json", pkg),
    Step("git add", "CHANGELOG.md", pkg),
    Step("git commit", "", pkg),
    Step("git tag", "", pkg)>>

bumpDeps == [i \in DOMAIN packages |-> Step("bumpDeps", "package.json", packages[i])]

Effect(op) == IF op \in {"setModuleVersion", "bumpDeps"} THEN "write package.json" ELSE op

\* The repository of a package after a step has succeeded
Done(r, step, version) ==
  CASE step.op = "setModuleVersion" -> [r EXCEPT !.version = version]
    [] step.op = "bumpDeps" -> [r EXCEPT !.deps = version]
    [] step.op = "write CHANGELOG.md" -> [r EXCEPT !.log = <<version>> \o @]
    [] step.op = "git add" -> [r EXCEPT !.index = @ \cup {step.file}]
    [] step.op = "git commit" -> [r EXCEPT !.commits = Append(@, version), !.index = {}]
    [] step.op = "git tag" -> [r EXCEPT !.tags = @ \cup {version}]
    [] OTHER -> r

RECURSIVE Perform(_, _, _)
Perform(r, steps, version) ==
  IF steps = <<>> THEN r
  ELSE Perform([r EXCEPT ![Head(steps).pkg] = Done(@, Head(steps), version)],
               Tail(steps), version)

\* The steps run in turn; the first one that throws ends the command
Execute(steps, version) ==
  \E k \in 0..Len(steps) :
    /\ repo' = Perform(repo, SubSeq(steps, 1, k), version)
    /\ IF k = Len(steps)
       THEN Exit(0, FALSE, {Effect(steps[j].op) : j \in 1..k})
       ELSE error("failed: " \o steps[k + 1].op, FALSE, {Effect(steps[j].op) : j \in 1..(k + 1)})

NoBump == [called |-> FALSE, version |-> NoVersion, changes |-> Changes(0, 0, 0),
           result |-> NoVersion]

\* release(pkgName, ...args), after its arguments have been found valid
release(pkgName, args) ==
  LET currentVersion == repo[pkgName].version
      changes == changelog(pkgName, args)
      given == newVersionArg(args, NoVersion)
      bumped == IF proc.script = 1 THEN bumpVersion(currentVersion, changes)
                ELSE bumpVersion2(currentVersion, changes)
      newVersion == IF given # NoVersion THEN given ELSE bumped
  IN /\ hist' = [hist EXCEPT !.bump = IF given # NoVersion THEN @
                                      ELSE [called |-> TRUE, version |-> currentVersion,
                                            changes |-> changes, result |-> bumped]]
     /\ IF newVersion = NoVersion
        THEN error(NoNotes, FALSE, GitLog) /\ UNCHANGED repo
        ELSE Execute(<<Step("git log", "", pkgName)>> \o doRelease(pkgName), newVersion)

Max(S) == CHOOSE n \in S : \A m \in S : m <= n

\* releaseAll(...args), after its arguments have been found valid
releaseAll ==
  LET maxVersion == Max({repo[p].version[2] : p \in PkgSet})
      newVersion == <<0, maxVersion + 1, 0>>
  IN /\ Execute(bumpDeps \o
                Concat([i \in DOMAIN packages |->
                          <<Step("git log", "", packages[i])>> \o doRelease(packages[i])]),
                newVersion)
     /\ UNCHANGED hist

\* start(): the command is looked up and called; the synchronous commands
\* run to their end inside the call.
start ==
  /\ proc.status = "start"
  /\ LET command == IF proc.argv = <<>> THEN "" ELSE Head(proc.argv)
         args == IF proc.argv = <<>> THEN <<>> ELSE Tail(proc.argv)
     IN CASE cmdFn(command) < 0 \/ cmdFn(command) > Len(args) ->
               Exit(1, TRUE, {}) /\ UNCHANGED <<repo, hist>>       \* help(1)
          [] command \in {"packages", "--help"} /\ cmdFn(command) <= Len(args) ->
               Exit(0, FALSE, {}) /\ UNCHANGED <<repo, hist>>
          [] command = "build" /\ cmdFn(command) = 0 ->
               /\ tasks' = <<Task("build", BuildOptions(args),
                                  IF filter(args) # <<>> THEN filter(args) ELSE packages)>>
               /\ proc' = [proc EXCEPT !.status = "running"]
               /\ UNCHANGED <<repo, hist>>
          [] command = "watch" /\ cmdFn(command) = 0 ->
               /\ tasks' = <<Task("watch", WatchOptions, packages)>>
               /\ proc' = [proc EXCEPT !.status = "running"]
               /\ UNCHANGED <<repo, hist>>
          [] command = "release" /\ cmdFn(command) <= Len(args) ->
               IF packageNames(Head(args)).kind = "null" \/ releaseArgs(Tail(args)) = "error"
               THEN Exit(1, TRUE, {}) /\ UNCHANGED <<repo, hist>>       \* error(...)
               ELSE release(Head(args), Tail(args))
          [] command = "notes" /\ cmdFn(command) <= Len(args) ->
               /\ IF packageNames(Head(args)).kind = "null"
                  THEN Exit(1, TRUE, {})
                  ELSE Exit(0, FALSE, GitLog)
               /\ UNCHANGED <<repo, hist>>
          [] command = "release-all" /\ cmdFn(command) = 0 ->
               IF releaseAllArgs(args) = "error"
               THEN Exit(1, TRUE, {}) /\ UNCHANGED <<repo, hist>>
               ELSE releaseAll
  /\ UNCHANGED <<now, src, dist, dependencies_, work, working, timers>>

NoCheck == [pkg |-> "", always |-> FALSE, cmp |-> "", invoked |-> FALSE]

\* How the oldest required output compares with the newest input
Newest(p) ==
  LET times == {fileTime(file) : file \in Range(inputFiles(p))}
  IN CHOOSE t \in times : \A u \in times : u <= t

Compare(p, options) ==
  LET time == OutputTime(p, options)
  IN IF time < 0 THEN "missing"
     ELSE IF time < Newest(p) THEN "older"
     ELSE IF time = Newest(p) THEN "equal"
     ELSE "newer"

\* build at the head of its loop over the names or over the packages
build(i) ==
  /\ tasks[i].fn = "build"
  /\ tasks[i].pc = "loop"
  /\ LET t == tasks[i]
     IN IF t.i > Len(t.list)
        THEN \* build returns: the process ends
             /\ Exit(0, FALSE, {})
             /\ UNCHANGED <<dependencies_, hist>>
        ELSE IF packageNames(t.list[t.i]).kind = "null"
        THEN \* throw new Error(`Unknown package ${name}`), then error(e)
             /\ Exit(1, TRUE, {})
             /\ UNCHANGED <<dependencies_, hist>>
        ELSE LET pkg == t.list[t.i]
                 invoked == ~UpToDate(pkg, t.options)
             IN /\ dependencies_' = Resolved(RebuildReads(pkg, t.options))
                /\ tasks' = [tasks EXCEPT ![i] =
                               [t EXCEPT !.pkg = pkg, !.i = @ + 1,
                                         !.pc = IF invoked THEN "rollup" ELSE "loop"]]
                /\ proc' = [proc EXCEPT !.effects = IF invoked THEN @ \cup {"rollup"} ELSE @]
                /\ hist' = [hist EXCEPT
                              !.check = [pkg |-> pkg, always |-> t.options.always,
                                         cmp |-> Compare(pkg, t.options), invoked |-> invoked],
                              !.built = IF invoked THEN @ \cup {pkg} ELSE @]
  /\ UNCHANGED <<now, src, dist, work, working, timers, repo>>

\* One output of a package has been written by build
buildGenerated(i) ==
  /\ tasks[i].fn = "build"
  /\ Generated(i)
  /\ proc' = [proc EXCEPT !.effects = @ \cup {"write"}]
  /\ hist' = [hist EXCEPT !.tied = @ \/ \E file \in Range(inputFiles(tasks[i].pkg)) :
                                          fileTime(file) >= now]

\* A rejection that is logged, after which the loop of build goes on
buildThrowsAndContinues(i) ==
  /\ Quiet
  /\ tasks[i].fn = "build"
  /\ tasks[i].pc \in {"rollup", "generate"}
  /\ tasks' = [tasks EXCEPT ![i].pc = "loop"]
  /\ UNCHANGED <<now, src, dist, dependencies_, work, working, timers, proc, hist, repo>>

\* rollup or a write rejects: build rejects, then error(e)
buildThrows(i) ==
  /\ Quiet
  /\ tasks[i].fn = "build"
  /\ tasks[i].pc \in {"rollup", "generate"}
  /\ Exit(1, FALSE, {})
  /\ UNCHANGED <<now, src, dist, dependencies_, work, working, timers, hist, repo>>

\* The same command line is run again, in a new process
again ==
  /\ proc.status = "exit"
  /\ proc.code = 0
  /\ proc.run = 1
  /\ proc.argv = <<"build">>
  /\ proc' = [proc EXCEPT !.status = "start", !.run = 2, !.effects = {}]
  /\ dependencies_' = [p \in PkgSet |-> Null]
  /\ hist' = [hist EXCEPT !.built = {}, !.check = NoCheck]
  /\ UNCHANGED <<now, src, dist, work, working, timers, tasks, repo>>

\* The api a source file can hold: as it was, changed, grown
Apis == {<<1>>, <<3>>, <<1, 1>>}

\* A source file is saved, once, between two runs
edit(p, k) ==
  /\ proc.status = "exit"
  /\ proc.run = 1
  /\ proc.argv = <<"build">>
  /\ ~hist.touched
  /\ \A q \in PkgSet : src[q][1].text = WatchSources[q][1].text
  /\ \E api \in Apis : src' = [src EXCEPT ![p][k].mtime = now, ![p][k].api = api]
  /\ hist' = [hist EXCEPT !.touched = TRUE, !.edited = p,
                          !.dts = dist[p]["index.d.ts"].mtime,
                          !.fresh = {q \in PkgSet : UpToDate(q, BuildOptions(<<>>))}]
  /\ UNCHANGED <<now, dist, dependencies_, work, working, timers, tasks, proc, repo>>

tick == Tick

----------------------------------------------------------------------------
(* The process `lz <command> <args>` *)

Names == PkgSet \cup {"nosuch"}

BuildLines ==
  {<<"build">> \o names \o force :
     names \in {<<>>} \cup {<<n>> : n \in Names} \cup {<<n, o>> : n \in Names, o \in Names},
     force \in {<<>>, <<"--force">>}}

OtherLines ==
  {<<>>, <<"frobnicate">>, <<"packages">>, <<"--help">>,
   <<"release">>, <<"release", "nosuch">>, <<"release", packages[1]>>,
   <<"release", packages[1], "--bogus">>, <<"release", packages[1], "--version", "1.0.0">>,
   <<"release", packages[1], "-m", "note", "extra">>,
   <<"notes">>, <<"notes", "nosuch">>, <<"notes", packages[1]>>,
   <<"release-all">>, <<"release-all", "--grammar", "note">>,
   <<"release-all", "--" \o packages[1], "note">>, <<"release-all", "bogus">>}

\* One source file per package that imports nothing or one registered package
AnySources ==
  [PkgSet -> {<<[text |-> <<>>, mtime |-> 0, api |-> <<1>>]>>} \cup
             {<<[text |-> <<<<n>>>>, mtime |-> 0, api |-> <<1>>]>> : n \in PkgSet}]

CliHist == [check |-> NoCheck, built |-> {}, tied |-> FALSE, touched |-> FALSE,
            bump |-> NoBump, edited |-> "", dts |-> -1, fresh |-> {}]

Init ==
  /\ now = 0
  /\ dependencies_ = [p \in PkgSet |-> Null]
  /\ work = <<>>
  /\ working = FALSE
  /\ timers = <<>>
  /\ tasks = <<>>
  /\ repo = RepoInit
  /\ hist = CliHist
  /\ \E argv \in BuildLines \cup OtherLines, map \in BOOLEAN :
       /\ proc = [argv |-> argv, status |-> "start", code |-> 0, run |-> 1,
                  configError |-> FALSE, effects |-> {}, declarationMap |-> map,
                  watches |-> {}, error |-> "", script |-> 1]
       /\ \/ src = WatchSources /\ dist = [p \in PkgSet |-> EmptyDist]
          \/ argv = <<"build">> /\ ~map /\ src \in AnySources
             /\ dist = [p \in PkgSet |-> EmptyDist]
          \/ argv = <<"build">> /\ ~map /\ src = WatchSources
             /\ dist = [p \in PkgSet |-> WatchedDist(0)]

Next ==
  \/ start
  \/ \E i \in DOMAIN tasks : build(i)
  \/ \E i \in DOMAIN tasks : RollupDone(i)
  \/ \E i \in DOMAIN tasks : buildGenerated(i)
  \/ \E i \in DOMAIN tasks : buildThrows(i)
  \/ again
  \/ \E p \in PkgSet : \E k \in DOMAIN src[p] : edit(p, k)
  \/ tick

Spec == Init /\ [][Next]_vars

----------------------------------------------------------------------------
(* The command `lz watch` *)

WatchHist == [attempted |-> <<>>, failed |-> {}]

\* watch at the head of its loop over the packages; after the loop,
\* `new Watcher(target, ...)` evaluates the undeclared name target: a
\* ReferenceError rejects watch before the constructor is entered, and the
\* catch of start calls error(e).
watch(i) ==
  /\ tasks[i].fn = "watch"
  /\ tasks[i].pc = "loop"
  /\ LET t == tasks[i]
     IN IF t.i > Len(t.list)
        THEN /\ Exit(1, FALSE, {})
             /\ UNCHANGED <<dependencies_, hist>>
        ELSE LET pkg == t.list[t.i]
                 invoked == ~UpToDate(pkg, t.options)
             IN /\ dependencies_' = Resolved(RebuildReads(pkg, t.options))
                /\ tasks' = [tasks EXCEPT ![i] =
                               [t EXCEPT !.pkg = pkg, !.i = @ + 1,
                                         !.pc = IF invoked THEN "rollup" ELSE "loop"]]
                /\ proc' = [proc EXCEPT !.effects = IF invoked THEN @ \cup {"rollup"} ELSE @]
                /\ hist' = [hist EXCEPT !.attempted = Append(@, pkg)]
  /\ UNCHANGED <<now, src, dist, work, working, timers, repo>>

\* One output of a package has been written by the baseline pass
watchGenerated(i) ==
  /\ tasks[i].fn = "watch"
  /\ Generated(i)
  /\ proc' = [proc EXCEPT !.effects = @ \cup {"write"}]
  /\ UNCHANGED hist

\* A rejection that leaves watch, as one leaves build
watchThrowsAndExits(i) ==
  /\ Quiet
  /\ tasks[i].fn = "watch"
  /\ tasks[i].pc \in {"rollup", "generate"}
  /\ Exit(1, FALSE, {})
  /\ hist' = [hist EXCEPT !.failed = @ \cup {tasks[i].pkg}]
  /\ UNCHANGED <<now, src, dist, dependencies_, work, working, timers, repo>>

\* rollup or a write rejects: catch(e) { console.log(e) }, and the loop goes on
watchThrows(i) ==
  /\ Quiet
  /\ tasks[i].fn = "watch"
  /\ tasks[i].pc \in {"rollup", "generate"}
  /\ tasks' = [tasks EXCEPT ![i].pc = "loop"]
  /\ hist' = [hist EXCEPT !.failed = @ \cup {tasks[i].pkg}]
  /\ UNCHANGED <<now, src, dist, dependencies_, work, working, timers, proc, repo>>

InitWatch ==
  /\ now = 0
  /\ src = WatchSources
  /\ dist \in [PkgSet -> {EmptyDist, WatchedDist(0)}]
  /\ dependencies_ = [p \in PkgSet |-> Null]
  /\ work = <<>>
  /\ working = FALSE
  /\ timers = <<>>
  /\ tasks = <<>>
  /\ repo = RepoInit
  /\ \E map \in BOOLEAN :
       proc = [argv |-> <<"watch">>, status |-> "start", code |-> 0, run |-> 1,
               configError |-> FALSE, effects |-> {}, declarationMap |-> map,
               watches |-> {}, error |-> "", script |-> 1]
  /\ hist = WatchHist

NextWatch ==
  \/ start
  \/ \E i \in DOMAIN tasks : watch(i)
  \/ \E i \in DOMAIN tasks : RollupDone(i)
  \/ \E i \in DOMAIN tasks : watchGenerated(i)
  \/ \E i \in DOMAIN tasks : watchThrows(i)
  \/ \E p \in PkgSet : \E k \in DOMAIN src[p] : Touch(p, k)
  \/ tick

SpecWatch == InitWatch /\ [][NextWatch]_vars

\* The baseline pass is over: watch has left its loop over the packages
BaselineOver == \A i \in DOMAIN tasks : tasks[i].fn # "watch"

\* C12: the baseline pass of watch calls a non-forced rebuild for every
\* registered package once, in registry order, one at a time; a build that
\* fails is logged and the later packages are still attempted; no filesystem
\* watch is registered before the pass is over.
C12_BaselineAttemptsEveryPackage ==
  /\ hist.attempted = SubSeq(packages, 1, Len(hist.attempted))
  /\ Cardinality(Building) <= 1
  /\ \A i \in DOMAIN tasks : tasks[i].fn = "watch" => ~tasks[i].options.always
  /\ (proc.status # "start" /\ BaselineOver) => hist.attempted = packages
  /\ ~BaselineOver => proc.watches = {}

\* The pass is over, the build of the first package failed, and the later
\* packages were attempted and built.
C12_Witness ==
  /\ proc.status # "start"
  /\ BaselineOver
  /\ packages[1] \in hist.failed
  /\ hist.attempted = packages
  /\ dist[packages[NumPkgs]]["index.js"].mtime = now
  /\ now > 0

\* C13: after its baseline pass watch constructs a Watcher with a watch on
\* every input file of every package, and the process does not exit as a
\* result of running the watch command.
C13_WatchEntersSchedulerLoop ==
  /\ proc.status # "exit"
  /\ (proc.status # "start" /\ BaselineOver) => proc.watches = Watched(PkgSet)

----------------------------------------------------------------------------
(* The commands `lz release`, `lz release-all` and `lz notes` *)

ReleaseLines ==
  {<<"release", packages[1]>> \o rest :
     rest \in {<<>>, <<"-m", "note">>, <<"-m", "FIX: note">>, <<"-m", "FEATURE: note">>,
               <<"-m", "BREAKING: note">>, <<"--version", "1.0.0">>, <<"--version">>,
               <<"--bogus">>}}
  \cup {<<"release", "nosuch">>, <<"notes", packages[1]>>,
        <<"release-all">>, <<"release-all", "--grammar", "note">>, <<"release-all", "bogus">>}

InitRelease ==
  /\ now = 0
  /\ src = WatchSources
  /\ dist = [p \in PkgSet |-> EmptyDist]
  /\ dependencies_ = [p \in PkgSet |-> Null]
  /\ work = <<>>
  /\ working = FALSE
  /\ timers = <<>>
  /\ tasks = <<>>
  /\ \E version \in [PkgSet -> Versions], notes \in AllChanges :
       repo = [p \in PkgSet |->
                 PkgRepo(version[p], IF p = packages[1] THEN notes ELSE Changes(0, 0, 0))]
  /\ \E argv \in ReleaseLines, script \in {1, 2} :
       proc = [argv |-> argv, status |-> "start", code |-> 0, run |-> 1,
               configError |-> FALSE, effects |-> {}, declarationMap |-> FALSE,
               watches |-> {}, error |-> "", script |-> script]
  /\ hist = [check |-> NoCheck, built |-> {}, tied |-> FALSE, touched |-> FALSE,
             bump |-> NoBump, edited |-> "", dts |-> -1, fresh |-> {}, repo0 |-> repo]

NextRelease == start

SpecRelease == InitRelease /\ [][NextRelease]_vars

\* C14: release without --version for a package whose commits and -m texts
\* hold no BREAKING, FIX or FEATURE note ends with the error "No new release
\* notes!" and leaves package.json, CHANGELOG.md, the git index, the commits
\* and the tags as they were.
C14_ReleaseWithoutNotesChangesNothing ==
  (/\ proc.status = "exit"
   /\ Len(proc.argv) >= 2
   /\ proc.argv[1] = "release"
   /\ proc.argv[2] \in PkgSet
   /\ \A i \in 3..Len(proc.argv) : proc.argv[i] \in {"-m", "note"}
   /\ hist.repo0[proc.argv[2]].notes = Changes(0, 0, 0))
  => (proc.code = 1 /\ proc.error = NoNotes /\ repo = hist.repo0)

\* `release <pkg> -m note` has ended for a package with no notes
C14_Witness ==
  /\ proc.status = "exit"
  /\ proc.argv = <<"release", packages[1], "-m", "note">>
  /\ hist.repo0[packages[1]].notes = Changes(0, 0, 0)
  /\ proc.error = NoNotes

\* C15: bumpVersion(major.minor.patch, changes) gives major.(minor+1).0 for
\* major # 0 and feature notes only, major.minor.(patch+1) for fix notes
\* only, 0.(minor+1).0 for major = 0 and a breaking note, (major+1).0.0 for
\* major # 0 and a breaking note, and throws when there is no note.
C15_BumpVersion ==
  hist.bump.called =>
    LET v == hist.bump.version
        c == hist.bump.changes
        r == hist.bump.result
    IN /\ (v[1] # 0 /\ c.feature > 0 /\ c.fix = 0 /\ c.breaking = 0) => r = <<v[1], v[2] + 1, 0>>
       /\ (c.fix > 0 /\ c.feature = 0 /\ c.breaking = 0) => r = <<v[1], v[2], v[3] + 1>>
       /\ (v[1] = 0 /\ c.breaking > 0) => r = <<0, v[2] + 1, 0>>
       /\ (v[1] # 0 /\ c.breaking > 0) => r = <<v[1] + 1, 0, 0>>
       /\ (c.feature = 0 /\ c.fix = 0 /\ c.breaking = 0) => (r = NoVersion /\ proc.error = NoNotes)

\* bumpVersion was called for a 0.x version with a breaking note, and the
\* release went through with a minor bump.
C15_Witness ==
  /\ hist.bump.called
  /\ hist.bump.version[1] = 0
  /\ hist.bump.changes.breaking > 0
  /\ proc.status = "exit"
  /\ proc.code = 0
  /\ repo[packages[1]].version = <<0, hist.bump.version[2] + 1, 0>>

\* A package is released at a version: manifest, constraints, changelog,
\* commit and tag
ReleasedAt(p, version) ==
  /\ repo[p].version = version
  /\ repo[p].deps = version
  /\ repo[p].log # <<>> /\ Head(repo[p].log) = version
  /\ repo[p].commits # <<>> /\ repo[p].commits[Len(repo[p].commits)] = version
  /\ version \in repo[p].tags

\* C16: release-all ends either with every package released at the new
\* shared version or with no package changed, whichever external step fails.
C16_ReleaseAllIsAtomic ==
  (proc.status = "exit" /\ proc.argv # <<>> /\ proc.argv[1] = "release-all" /\ proc.script = 1)
  => \/ repo = hist.repo0
     \/ \A p \in PkgSet :
          ReleasedAt(p, <<0, Max({hist.repo0[q].version[2] : q \in PkgSet}) + 1, 0>>)

----------------------------------------------------------------------------
(* The dependencies getter over any content of the source files *)

Lines == {<<>>} \cup {<<n>> : n \in ImportNames}

Texts == UNION {[1..k -> Lines] : k \in 0..MaxLines}

SrcFiles ==
  UNION {[1..k -> {[text |-> t, mtime |-> 0, api |-> <<1>>] : t \in Texts}] : k \in 1..MaxFiles}

\* The getter is read for the first time: it scans and fills the cache
getDependencies(p) ==
  /\ dependencies_[p].kind = "null"
  /\ dependencies_' = Resolved({p})
  /\ UNCHANGED <<now, src, dist, work, working, timers, tasks, proc, hist, repo>>

InitDeps ==
  /\ now = 0
  /\ \E P \in PkgSet : \E files \in SrcFiles : src = [WatchSources EXCEPT ![P] = files]
  /\ dist = [p \in PkgSet |-> EmptyDist]
  /\ dependencies_ = [p \in PkgSet |-> Null]
  /\ work = <<>>
  /\ working = FALSE
  /\ timers = <<>>
  /\ tasks = <<>>
  /\ repo = RepoInit
  /\ proc = [argv |-> <<"build">>, status |-> "running", code |-> 0, run |-> 1,
             configError |-> FALSE, effects |-> {}, declarationMap |-> FALSE,
             watches |-> {}, error |-> "", script |-> 1]
  /\ hist = CliHist

NextDeps == \E p \in PkgSet : getDependencies(p)

SpecDeps == InitDeps /\ [][NextDeps]_vars

----------------------------------------------------------------------------
(* Properties of the Dependency Resolver *)

Cached == {p \in PkgSet : dependencies_[p].kind # "null"}

\* C8: the resolved dependencies of a package hold each registered package
\* at most once, also when the same sibling is imported several times in one
\* source file or in several source files.
C8_DependenciesHaveNoDuplicates ==
  \A p \in Cached :
    LET deps == dependencies_[p].items
    IN \A i, j \in DOMAIN deps : deps[i] = deps[j] => i = j

\* C9: the resolved dependencies of a package P never hold P itself, and hold
\* only registered packages that a line of a source file of P imports.
C9_DependenciesAreDirectAndNotSelf ==
  \A p \in Cached :
    \A d \in Range(dependencies_[p].items) :
      /\ d.name # p
      /\ d.name \in PkgSet
      /\ \E k \in DOMAIN src[p] : \E l \in DOMAIN src[p][k].text :
           src[p][k].text[l] # <<>> /\ d.name \in Range(src[p][k].text[l])

----------------------------------------------------------------------------
(* Properties of the Staleness Detector and of the Build Driver *)

AllOptions == [esm : BOOLEAN, always : BOOLEAN]

RequiredOutputs(p, options) ==
  {cjsFile(p)} \cup (IF options.esm THEN {esmFile(p)} ELSE {})

Oldest(p, options) ==
  LET times == {fileTime(file) : file \in RequiredOutputs(p, options)}
  IN CHOOSE t \in times : \A u \in times : t <= u

\* C5 as claimed: rebuild invokes the bundler if and only if the force flag
\* is set, or a required output is missing, or the oldest required output is
\* strictly older than the newest input; with equal times it does not build.
C5_BuildsIffOlder ==
  \A p \in PkgSet : \A options \in AllOptions :
    ~UpToDate(p, options) <=>
      \/ options.always
      \/ \E file \in RequiredOutputs(p, options) : fileTime(file) < 0
      \/ Oldest(p, options) < Newest(p)

\* C5 as amended: rebuild invokes the bundler if and only if the force flag
\* is set, or a required output is missing, or the oldest required output
\* (cjs always, esm only when options.esm) is not newer than the newest
\* input: with equal times it builds.
C5_BuildsIffNotNewer ==
  /\ \A p \in PkgSet : \A options \in AllOptions :
       ~UpToDate(p, options) <=>
         \/ options.always
         \/ \E file \in RequiredOutputs(p, options) : fileTime(file) < 0
         \/ Oldest(p, options) <= Newest(p)
  /\ hist.check.pkg # "" =>
       (hist.check.invoked <=>
          (hist.check.always \/ hist.check.cmp \in {"missing", "older", "equal"}))

\* rebuild was called, without force, for a package whose oldest output is as
\* old as its newest input, and it invoked the bundler.
C5_Witness ==
  /\ hist.check.pkg # ""
  /\ ~hist.check.always
  /\ hist.check.cmp = "equal"
  /\ hist.check.invoked

\* Every dependency of every package precedes it in the registry
DepsOrdered ==
  \A p \in PkgSet : \A d \in Range(ScanSources(<<>>, src[p])) :
    Position(d.name) < Position(p)

\* C6 as claimed: for any registry and any dependency relation, the second
\* of two runs of `build` with no source change and no failure in between
\* invokes the bundler for no package.
C6_SecondBuildIsNoOp ==
  (proc.run = 2 /\ ~hist.touched) => hist.built = {}

\* C6 as amended: when every dependency of every package precedes it in the
\* registry and no output of the first run got the modification time of one
\* of its inputs, the second of two runs of `build` with no source change and
\* no failure in between invokes the bundler for no package.
C6_SecondBuildIsNoOpInOrder ==
  (proc.run = 2 /\ ~hist.touched /\ DepsOrdered /\ ~hist.tied) => hist.built = {}

\* The second run has ended, a package has a dependency whose declaration
\* file the first run wrote, and nothing was built.
C6_Witness ==
  /\ proc.run = 2
  /\ proc.status = "exit"
  /\ ~hist.touched
  /\ ~hist.tied
  /\ DepsOrdered
  /\ \E p \in PkgSet : \E d \in Range(ScanSources(<<>>, src[p])) :
       dist[d.name]["index.d.ts"].mtime > 0
  /\ hist.built = {}

\* The bytes runRollup hands to maybeWriteFile for a declaration asset
Bytes(asset) ==
  IF asset.fileName = "index.d.ts.map" THEN ReplaceSourceRoot(asset.source) ELSE asset.source

\* What one pass over an output must have done to the dist directory
Suppression(i) ==
  LET t == tasks[i]
      p == t.pkg
      format == Head(t.outs)
      old == dist[p]
      new == dist'[p]
  IN /\ \A k \in DOMAIN t.bundle :
          LET f == t.bundle[k].fileName
              bytes == Bytes(t.bundle[k])
              same == old[f].mtime >= 0 /\ old[f].content = bytes
          IN /\ same => new[f] = old[f]
             /\ new[f] # old[f] => format = "cjs"
             /\ (format = "cjs" /\ ~same) => new[f] = [mtime |-> now, content |-> bytes]
     /\ new[Chunk(format)].mtime = now
     /\ new[Chunk(format) \o ".map"].mtime = now

\* C7: a pass of runRollup leaves a declaration file untouched (same
\* modification time, same bytes) when the bytes it produces are those on
\* disk; it writes a declaration file only in the cjs pass and only when the
\* file is absent or differs in size or content; it writes the bundle code
\* and its source map in every pass.
C7_DeclarationWriteSuppression ==
  [][\A i \in DOMAIN tasks : buildGenerated(i) => Suppression(i)]_vars

\* A rebuild has ended whose declaration file holds the bytes that were on
\* disk: the bundle code is new, the declaration file kept its older time.
C7_Witness ==
  \E i \in DOMAIN tasks :
    LET t == tasks[i]
    IN /\ t.fn = "build"
       /\ t.pc = "loop"
       /\ t.pkg # ""
       /\ t.outs = <<>>
       /\ t.bundle # NoBundle
       /\ dist[t.pkg]["index.d.ts"].content = Bytes(t.bundle[1])
       /\ dist[t.pkg]["index.d.ts"].mtime >= 0
       /\ dist[t.pkg]["index.d.ts"].mtime < dist[t.pkg]["index.js"].mtime
       /\ dist[t.pkg]["index.js"].mtime = now

\* C10: a process that ends on a configuration error (unknown package name,
\* bad arguments, unknown command) has built nothing, written nothing and run
\* no version-control command.
C10_ConfigErrorsHaveNoSideEffects ==
  (proc.status = "exit" /\ proc.configError) => (proc.code = 1 /\ proc.effects = {})

\* C11: when the build of a package throws in the build command, the process
\* ends at once with a non-zero status, and from then on no package is built
\* and no file of dist is written: the packages after the failing one, in
\* the order of the registry or of the arguments, are never built.
C11_BuildErrorAborts ==
  /\ [][(\E i \in DOMAIN tasks : buildThrows(i)) =>
          (proc'.status = "exit" /\ proc'.code # 0 /\ tasks' = <<>>)]_vars
  /\ [][(proc.status = "exit" /\ proc.code # 0) =>
          (proc'.status = "exit" /\ dist' = dist /\ hist'.built = hist.built)]_vars

\* `lz build` has ended on the error of the first package of the registry:
\* the second package has not been built.
C11_Witness ==
  /\ proc.argv = <<"build">>
  /\ proc.status = "exit"
  /\ proc.code = 1
  /\ ~proc.configError
  /\ hist.built = {packages[1]}
  /\ dist[packages[2]] = EmptyDist

\* C17: a source file of the first package (common) alone has been saved
\* between two runs of build, and the second run comes to the staleness check
\* of the second package (lr), which imports the first: when the declaration
\* file of common is not older than the oldest output of lr, the check of lr
\* requires a rebuild; when the rebuild of common has left its declaration
\* file unwritten and lr was up to date, lr is still up to date.
C17_StalenessPropagatesThroughDeclarations ==
  [][\A i \in DOMAIN tasks :
       (/\ build(i)
        /\ proc.run = 2
        /\ hist.edited = packages[1]
        /\ tasks[i].i <= Len(tasks[i].list)
        /\ tasks[i].list[tasks[i].i] = packages[2])
       => LET dts == fileTime(DistFile(packages[1], "index.d.ts"))
          IN /\ dts >= OutputTime(packages[2], tasks[i].options) => hist'.check.invoked
             /\ (dts = hist.dts /\ packages[2] \in hist.fresh) => ~hist'.check.invoked]_vars

\* The second run has found lr stale: lr was up to date when the source of
\* common was saved, and the rebuild of common has written its declaration
\* file since.
C17_Witness ==
  /\ proc.run = 2
  /\ hist.edited = packages[1]
  /\ packages[2] \in hist.fresh
  /\ hist.check.pkg = packages[2]
  /\ hist.check.invoked
  /\ dist[packages[1]]["index.d.ts"].mtime > hist.dts
  /\ src[packages[2]][1].mtime < hist.dts

----------------------------------------------------------------------------
(* The dependencies getter when fs.readFileSync throws for a source file *)

\* The source files of a package, each with the outcome of reading it: a
\* listed path whose read throws is a dangling link, a directory or a file
\* without read permission.
ReadFiles ==
  UNION {[1..k -> {[text |-> t, mtime |-> 0, api |-> <<1>>, readable |-> r] :
                      t \in Texts, r \in BOOLEAN}] : k \in 1..MaxFiles}

\* The position of the first file of the scan whose read throws, 0 if none
FirstUnreadable(files) ==
  IF \A k \in DOMAIN files : files[k].readable THEN 0
  ELSE CHOOSE k \in DOMAIN files :
         /\ ~files[k].readable
         /\ \A j \in 1..(k-1) : files[j].readable

\* What the loop of the getter has pushed when it ends or is left by a throw
Scanned(files) ==
  IF FirstUnreadable(files) = 0 THEN ScanSources(<<>>, files)
  ELSE ScanSources(<<>>, SubSeq(files, 1, FirstUnreadable(files) - 1))

NoResult == [kind |-> "none", pkg |-> "", items |-> <<>>]

\* pkg.dependencies is read: the cache is returned when it is set; otherwise
\* it is set to an empty array, the files are scanned into it, and it is
\* returned unless a read threw.
readDependencies(p) ==
  /\ IF dependencies_[p].kind # "null"
     THEN /\ UNCHANGED dependencies_
          /\ hist' = [hist EXCEPT !.result = [kind |-> "return", pkg |-> p,
                                              items |-> dependencies_[p].items],
                                  !.threw = @ \ {p}]
     ELSE /\ dependencies_' = [dependencies_ EXCEPT ![p] = Array(Scanned(src[p]))]
          /\ hist' = IF FirstUnreadable(src[p]) = 0
                     THEN [hist EXCEPT !.result = [kind |-> "return", pkg |-> p,
                                                   items |-> Scanned(src[p])]]
                     ELSE [hist EXCEPT !.result = [kind |-> "throw", pkg |-> p,
                                                   items |-> <<>>],
                                       !.threw = @ \cup {p}]
  /\ UNCHANGED <<now, src, dist, work, working, timers, tasks, proc, repo>>

\* A source file whose read threw can be read from now on
repair(p, k) ==
  /\ ~src[p][k].readable
  /\ src' = [src EXCEPT ![p][k].readable = TRUE]
  /\ hist' = [hist EXCEPT !.result = NoResult]
  /\ UNCHANGED <<now, dist, dependencies_, work, working, timers, tasks, proc, repo>>

InitRead ==
  /\ now = 0
  /\ \E P \in PkgSet : \E files \in ReadFiles :
       src = [p \in PkgSet |->
                IF p = P THEN files
                ELSE [k \in DOMAIN WatchSources[p] |->
                        [readable |-> TRUE] @@ WatchSources[p][k]]]
  /\ dist = [p \in PkgSet |-> EmptyDist]
  /\ dependencies_ = [p \in PkgSet |-> Null]
  /\ work = <<>>
  /\ working = FALSE
  /\ timers = <<>>
  /\ tasks = <<>>
  /\ repo = RepoInit
  /\ proc = [argv |-> <<"watch">>, status |-> "running", code |-> 0, run |-> 1,
             configError |-> FALSE, effects |-> {}, declarationMap |-> FALSE,
             watches |-> {}, error |-> "", script |-> 1]
  /\ hist = [result |-> NoResult, threw |-> {}]

NextRead ==
  \/ \E p \in PkgSet : readDependencies(p)
  \/ \E p \in PkgSet : \E k \in DOMAIN src[p] : repair(p, k)

SpecRead == InitRead /\ [][NextRead]_vars

\* C22: a package whose latest read of dependencies threw while its source
\* files were scanned has an unset cache, and every read of dependencies
\* that returns, returns the dependencies that the scan of all the source
\* files of the package yields, never a part of them.
C22_NoPartialDependenciesCached ==
  /\ \A p \in hist.threw : dependencies_[p].kind = "null"
  /\ hist.result.kind = "return" =>
       hist.result.items = ScanSources(<<>>, src[hist.result.pkg])

====
